---------------------------- MODULE Spec2Model ----------------------------
(***************************************************************************)
(* The relay broker of src/app.py: the three process-wide registries        *)
(* (connected_clients, web_viewers, the preview cached in a client record)  *)
(* and the Socket.IO handlers that read and write them.                     *)
(*                                                                         *)
(* Every handler runs to completion before the next event is handled (one   *)
(* cooperative event loop, no blocking call inside a handler), so each      *)
(* handler is one action.  Payloads are opaque: an image, a preview, the    *)
(* info dictionary and the timestamps (last_seen, joined_at) carry no       *)
(* routing decision and are abstracted to their presence.                   *)
(***************************************************************************)
EXTENDS Integers, Sequences, FiniteSets, TLC

\* Number of transport connections (request.sid values) a run may open.
MaxConn == 3

\* Number of input messages the connections of a run may send, all together,
\* where the messages in flight are followed one by one (SpecFifo).
MaxSent == 3

\* Connection handles.  Socket.IO never reuses a sid, so they are handed out
\* in order and a closed one stays closed.
Sids == 1..MaxConn

\* Logical agent identifiers a message may name in data['client_id'].
ClientIds == {"pc-1", "pc-2"}

\* The pseudo-room of socketio.emit(..., broadcast=True).
Broadcast == -1

\* An event that names no identifier (request_client_list carries no data).
NoClient == "none"

\* No connection handle: no registration has named the identifier yet.
NoSid == 0

VARIABLES
  opened,             \* how many connections have been accepted so far
  closed,             \* the sids whose disconnect has been handled
  connected_clients,  \* client_id -> {socket_id, online, preview}: insertion-ordered dict
  web_viewers,        \* viewer_id -> {socket_id, watching_client}
  emits,              \* what the handler that has just run emitted
  last,               \* the event that handler was called for; Idle between two handlers
  lastReg,            \* client_id -> sid of the most recent client_register naming it
  sent,               \* how many input messages have been sent so far
  pending,            \* sid -> the input messages of the connection not yet handled, oldest first
  delivered,          \* sid -> the input events emitted to the connection's room, oldest first
  superseded          \* client_id -> the sids whose record of it another connection's register replaced

vars == <<opened, closed, connected_clients, web_viewers, emits, last, lastReg,
          sent, pending, delivered, superseded>>

\* The connections' message streams.  Spec abstracts them away (any event of an
\* open connection may be the next one handled) and leaves them empty; SpecFifo
\* follows each input message from the sender's stream to the agent's.
wire == <<sent, pending, delivered>>

\* What the program itself does not keep: which connections once held a
\* record that a later registration took over.  Spec leaves it empty;
\* SpecSupersede records it.
history == <<superseded>>

\* A connection that was accepted and has not disconnected.
IsOpen(sid) == sid \in 1..opened /\ sid \notin closed

OpenSids == {s \in Sids : IsOpen(s)}

(***************************************************************************)
(* connected_clients is a Python dict.  Its iteration order (insertion      *)
(* order; assigning to an existing key keeps the key's position) decides    *)
(* which record handle_disconnect finds first, so the dict is the sequence  *)
(* of its items.                                                            *)
(***************************************************************************)
Keys(d) == {d[i].client_id : i \in 1..Len(d)}

\* `client_id in connected_clients`
HasKey(d, client_id) == client_id \in Keys(d)

IndexOf(d, client_id) == CHOOSE i \in 1..Len(d) : d[i].client_id = client_id

\* `connected_clients[client_id]`
Get(d, client_id) == d[IndexOf(d, client_id)]

\* A merging registry: a key that is present keeps its record, the new one is
\* appended beside it.
DictSetAppend(d, client_id, rec) == Append(d, rec)

\* `connected_clients[client_id] = info`
DictSet(d, client_id, rec) ==
  IF HasKey(d, client_id)
    THEN [d EXCEPT ![IndexOf(d, client_id)] = rec]
    ELSE Append(d, rec)

\* A lookup that forgets the online flag: any record under the key counts.
IsOnlineAnyRecord(client_id) == HasKey(connected_clients, client_id)

\* `client_id in connected_clients and connected_clients[client_id]['online']`
IsOnline(client_id) ==
  /\ HasKey(connected_clients, client_id)
  /\ Get(connected_clients, client_id).online

\* data.get('reason') on a payload that has no such key.
NoReason == "none"

\* One emit: the event name, the room it is sent to, the identifier it is
\* about, and the keys of a viewer_joined payload (success, message; the
\* payloads of src/app.py carry no 'reason' key).
Emit(event, room, client_id) ==
  [event |-> event, room |-> room, client_id |-> client_id,
   success |-> TRUE, message |-> "", reason |-> NoReason]

Reply(event, room, client_id, success, message) ==
  [event |-> event, room |-> room, client_id |-> client_id,
   success |-> success, message |-> message, reason |-> NoReason]

\* No key of the message is missing.
NoField == "none"

\* The event being handled: its name, request.sid and data['client_id'].  The
\* other fields describe the call and are read by no handler:
\*   authenticated  the auth collaborator's verdict on the requester of a
\*                  pairing at that moment (src/app.py holds no such check);
\*   replaced       the handle of the online record a client_register found
\*                  under its identifier (NoSid: none);
\*   has_preview, has_image   `'preview' in data`, `'image' in data`;
\*   was_watching   the watching_client of the viewer record request.sid held
\*                  when a viewer_join_client or a disconnect began (NoClient:
\*                  it held none);
\*   missing        the key of data whose lookup raised KeyError (NoField: the
\*                  message had every key the handler reads with data[...]).
\*   raised_in      the event whose handler raised it; the call is recorded
\*                  with op "KeyError", apart from the calls whose handler
\*                  ran to its end.
Event(op, sid, client_id) ==
  [op |-> op, sid |-> sid, client_id |-> client_id, authenticated |-> FALSE,
   replaced |-> NoSid, has_preview |-> FALSE, has_image |-> FALSE,
   was_watching |-> NoClient, missing |-> NoField, raised_in |-> NoField]

\* `web_viewers[sid]['watching_client']` when the record exists.
WatchedBy(viewers, sid) ==
  IF sid \in DOMAIN viewers THEN viewers[sid].watching_client ELSE NoClient

\* The event loop is between two handlers.
Idle == Event("idle", NoSid, NoClient)

\* The event loop hands the next event of connection sid to its handler: no
\* other handler is running, and the connection is open (no event of a
\* connection is processed after its disconnect).
Dispatch(sid) == last = Idle /\ IsOpen(sid)

Init ==
  /\ opened = 0
  /\ closed = {}
  /\ connected_clients = <<>>
  /\ web_viewers = <<>>
  /\ emits = {}
  /\ last = Idle
  /\ lastReg = [c \in ClientIds |-> NoSid]
  /\ sent = 0
  /\ pending = [s \in Sids |-> <<>>]
  /\ delivered = [s \in Sids |-> <<>>]
  /\ superseded = [c \in ClientIds |-> {}]

\* @socketio.on('connect'): the transport accepts a connection; the handler
\* only logs.
handle_connect ==
  /\ last = Idle
  /\ opened < MaxConn
  /\ opened' = opened + 1
  /\ emits' = {}
  /\ last' = Event("connect", opened + 1, NoClient)
  /\ UNCHANGED <<closed, connected_clients, web_viewers, lastReg>>

\* The first item, in iteration order, whose socket_id is sid; 0 when the loop
\* runs to its end without a match.
FirstWithSocket(d, sid) ==
  IF \E i \in 1..Len(d) : d[i].socket_id = sid
    THEN CHOOSE i \in 1..Len(d) :
           /\ d[i].socket_id = sid
           /\ \A j \in 1..(i - 1) : d[j].socket_id # sid
    ELSE 0

\* A cleanup that passes over the records already offline: it marks the first
\* record of the connection that is still online.
MarkOfflineNextOnline(d, sid) ==
  IF \E i \in 1..Len(d) : d[i].socket_id = sid /\ d[i].online
    THEN LET i == CHOOSE k \in 1..Len(d) :
                    /\ d[k].socket_id = sid /\ d[k].online
                    /\ \A j \in 1..(k - 1) : ~(d[j].socket_id = sid /\ d[j].online)
         IN [d EXCEPT ![i].online = FALSE]
    ELSE d

\* A cleanup that never marks a record.
MarkOfflineNone(d, sid) == d

\* A cleanup that marks every record offline, whoever holds it.
MarkOfflineEvery(d, sid) ==
  [i \in 1..Len(d) |-> [d[i] EXCEPT !.online = FALSE]]

\* The client loop of handle_disconnect: `connected_clients[client_id]['online']
\* = False` for the first record whose socket_id is sid, then `break`.
MarkOffline(d, sid) ==
  LET i == FirstWithSocket(d, sid) IN
    IF i = 0 THEN d ELSE [d EXCEPT ![i].online = FALSE]

\* A cleanup that leaves the viewer's record in place.
RemoveViewerKeep(viewers, sid) == viewers

\* The viewer loop of handle_disconnect: `del web_viewers[viewer_id]` for the
\* record whose socket_id is sid.  viewer_join_client stores a record only under
\* the key request.sid with socket_id request.sid, so at most one matches.
RemoveViewer(viewers, sid) ==
  [v \in {x \in DOMAIN viewers : viewers[x].socket_id # sid} |-> viewers[v]]

\* @socketio.on('disconnect')
handle_disconnect(sid) ==
  /\ Dispatch(sid)
  /\ closed' = closed \cup {sid}
  /\ connected_clients' = MarkOffline(connected_clients, sid)
  /\ LET i == FirstWithSocket(connected_clients, sid) IN
       emits' = IF i = 0
                  THEN {}
                  ELSE {Emit("client_disconnected", Broadcast,
                             connected_clients[i].client_id)}
  /\ web_viewers' = RemoveViewer(web_viewers, sid)
  /\ last' = [Event("disconnect", sid, NoClient) EXCEPT
                !.was_watching = WatchedBy(web_viewers, sid)]
  /\ UNCHANGED <<opened, lastReg>>

\* A registration that merges with the record already online: the old record,
\* its connection handle included, is kept.
RegisteredInfoMerge(d, sid, client_id) ==
  IF HasKey(d, client_id) /\ Get(d, client_id).online
    THEN Get(d, client_id)
    ELSE [client_id |-> client_id, socket_id |-> sid, online |-> TRUE,
          preview |-> FALSE]

\* The info dictionary handle_client_register stores: the one the message
\* carries, stamped with the socket_id and online = True.  It is a new
\* dictionary, so nothing of an earlier record (its preview) is in it.
RegisteredInfo(d, sid, client_id) ==
  [client_id |-> client_id, socket_id |-> sid, online |-> TRUE,
   preview |-> FALSE]

\* A registration that flushes a held-back input event to the new connection.
handle_client_register_Replay(sid, client_id) ==
  /\ Dispatch(sid)
  /\ connected_clients' =
       DictSet(connected_clients, client_id,
               RegisteredInfo(connected_clients, sid, client_id))
  /\ emits' = {Emit("client_connected", Broadcast, client_id),
               Emit("registration_success", sid, client_id),
               Emit("mouse_action", sid, client_id)}
  /\ last' = [Event("client_register", sid, client_id) EXCEPT
                !.replaced = IF IsOnline(client_id)
                               THEN Get(connected_clients, client_id).socket_id
                               ELSE NoSid]
  /\ lastReg' = [lastReg EXCEPT ![client_id] = sid]
  /\ UNCHANGED <<opened, closed, web_viewers>>

\* @socketio.on('client_register')
handle_client_register(sid, client_id) ==
  /\ Dispatch(sid)
  /\ connected_clients' =
       DictSet(connected_clients, client_id,
               RegisteredInfo(connected_clients, sid, client_id))
  /\ emits' = {Emit("client_connected", Broadcast, client_id),
               Emit("registration_success", sid, client_id)}
  /\ last' = [Event("client_register", sid, client_id) EXCEPT
                !.replaced = IF IsOnline(client_id)
                               THEN Get(connected_clients, client_id).socket_id
                               ELSE NoSid]
  /\ lastReg' = [lastReg EXCEPT ![client_id] = sid]
  /\ UNCHANGED <<opened, closed, web_viewers>>

\* The viewers a full frame or a status event about client_id is forwarded to:
\* `viewer_info.get('watching_client') == client_id`.
ViewersOf(viewers, client_id) ==
  {v \in DOMAIN viewers : viewers[v].watching_client = client_id}

\* The emits of the fan-out loop, one per matching viewer record.
FanOut(event, viewers, client_id) ==
  {Emit(event, viewers[v].socket_id, client_id) : v \in ViewersOf(viewers, client_id)}

\* A frame handler that takes a frame as a sign of life: storing the preview
\* also marks the record online.
handle_screen_frame_from_client_Revive(sid, client_id, has_preview, has_image) ==
  /\ Dispatch(sid)
  /\ connected_clients' =
       IF has_preview /\ HasKey(connected_clients, client_id)
         THEN [connected_clients EXCEPT
                 ![IndexOf(connected_clients, client_id)].preview = TRUE,
                 ![IndexOf(connected_clients, client_id)].online = TRUE]
         ELSE connected_clients
  /\ emits' =
       (IF has_preview /\ HasKey(connected_clients, client_id)
          THEN {Emit("client_screen_preview", Broadcast, client_id)} ELSE {})
       \cup
       (IF has_image THEN FanOut("screen_frame", web_viewers, client_id) ELSE {})
  /\ last' = [Event("screen_frame_from_client", sid, client_id) EXCEPT
                !.has_preview = has_preview, !.has_image = has_image]
  /\ UNCHANGED <<opened, closed, web_viewers, lastReg>>

\* @socketio.on('screen_frame_from_client')
handle_screen_frame_from_client(sid, client_id, has_preview, has_image) ==
  /\ Dispatch(sid)
  /\ connected_clients' =
       IF has_preview /\ HasKey(connected_clients, client_id)
         THEN [connected_clients EXCEPT
                 ![IndexOf(connected_clients, client_id)].preview = TRUE]
         ELSE connected_clients
  /\ emits' =
       (IF has_preview /\ HasKey(connected_clients, client_id)
          THEN {Emit("client_screen_preview", Broadcast, client_id)} ELSE {})
       \cup
       (IF has_image THEN FanOut("screen_frame", web_viewers, client_id) ELSE {})
  /\ last' = [Event("screen_frame_from_client", sid, client_id) EXCEPT
                !.has_preview = has_preview, !.has_image = has_image]
  /\ UNCHANGED <<opened, closed, web_viewers, lastReg>>

\* @socketio.on('request_client_list')
handle_request_client_list(sid) ==
  /\ Dispatch(sid)
  /\ emits' = {Emit("client_list", sid, NoClient)}
  /\ last' = Event("request_client_list", sid, NoClient)
  /\ UNCHANGED <<opened, closed, connected_clients, web_viewers, lastReg>>

\* A join that drops the requester's existing pairing when it fails.
handle_viewer_join_client_Unpair(sid, client_id, authenticated) ==
  /\ Dispatch(sid)
  /\ IF IsOnline(client_id)
       THEN /\ web_viewers' =
                 (sid :> [socket_id |-> sid, watching_client |-> client_id])
                 @@ web_viewers
            /\ emits' = {Reply("viewer_joined", sid, client_id, TRUE, "")}
       ELSE /\ web_viewers' = [v \in DOMAIN web_viewers \ {sid} |-> web_viewers[v]]
            /\ emits' = {Reply("viewer_joined", sid, NoClient, FALSE,
                               "Client not available")}
  /\ last' = [Event("viewer_join_client", sid, client_id) EXCEPT
                !.authenticated = authenticated,
                !.was_watching = WatchedBy(web_viewers, sid)]
  /\ UNCHANGED <<opened, closed, connected_clients, lastReg>>

\* A join that records the pairing before it looks the identifier up, and
\* keeps it when the lookup fails.
handle_viewer_join_client_Unchecked(sid, client_id, authenticated) ==
  /\ Dispatch(sid)
  /\ web_viewers' =
       (sid :> [socket_id |-> sid, watching_client |-> client_id]) @@ web_viewers
  /\ emits' = IF IsOnline(client_id)
                THEN {Reply("viewer_joined", sid, client_id, TRUE, "")}
                ELSE {Reply("viewer_joined", sid, NoClient, FALSE,
                            "Client not available")}
  /\ last' = [Event("viewer_join_client", sid, client_id) EXCEPT
                !.authenticated = authenticated,
                !.was_watching = WatchedBy(web_viewers, sid)]
  /\ UNCHANGED <<opened, closed, connected_clients, lastReg>>

\* A join that records the pairing and sends the requester no acknowledgement.
handle_viewer_join_client_Silent(sid, client_id, authenticated) ==
  /\ Dispatch(sid)
  /\ IF IsOnline(client_id)
       THEN /\ web_viewers' =
                 (sid :> [socket_id |-> sid, watching_client |-> client_id])
                 @@ web_viewers
            /\ emits' = {}
       ELSE /\ web_viewers' = web_viewers
            /\ emits' = {Reply("viewer_joined", sid, NoClient, FALSE,
                               "Client not available")}
  /\ last' = [Event("viewer_join_client", sid, client_id) EXCEPT
                !.authenticated = authenticated,
                !.was_watching = WatchedBy(web_viewers, sid)]
  /\ UNCHANGED <<opened, closed, connected_clients, lastReg>>

\* A join that keeps the record the requester already has: only a connection
\* without a viewer record is paired with the identifier it asks for.
handle_viewer_join_client_KeepFirst(sid, client_id, authenticated) ==
  /\ Dispatch(sid)
  /\ IF IsOnline(client_id)
       THEN /\ web_viewers' =
                 web_viewers @@
                 (sid :> [socket_id |-> sid, watching_client |-> client_id])
            /\ emits' = {Reply("viewer_joined", sid, client_id, TRUE, "")}
       ELSE /\ web_viewers' = web_viewers
            /\ emits' = {Reply("viewer_joined", sid, NoClient, FALSE,
                               "Client not available")}
  /\ last' = [Event("viewer_join_client", sid, client_id) EXCEPT
                !.authenticated = authenticated,
                !.was_watching = WatchedBy(web_viewers, sid)]
  /\ UNCHANGED <<opened, closed, connected_clients, lastReg>>

\* A join that gives the requester the agent to itself: the viewers already
\* watching the identifier lose their records.
handle_viewer_join_client_Exclusive(sid, client_id, authenticated) ==
  /\ Dispatch(sid)
  /\ IF IsOnline(client_id)
       THEN /\ web_viewers' =
                 (sid :> [socket_id |-> sid, watching_client |-> client_id])
                 @@ [v \in DOMAIN web_viewers \ ViewersOf(web_viewers, client_id)
                       |-> web_viewers[v]]
            /\ emits' = {Reply("viewer_joined", sid, client_id, TRUE, "")}
       ELSE /\ web_viewers' = web_viewers
            /\ emits' = {Reply("viewer_joined", sid, NoClient, FALSE,
                               "Client not available")}
  /\ last' = [Event("viewer_join_client", sid, client_id) EXCEPT
                !.authenticated = authenticated,
                !.was_watching = WatchedBy(web_viewers, sid)]
  /\ UNCHANGED <<opened, closed, connected_clients, lastReg>>

\* @socketio.on('viewer_join_client')
handle_viewer_join_client(sid, client_id, authenticated) ==
  /\ Dispatch(sid)
  /\ IF IsOnline(client_id)
       THEN /\ web_viewers' =
                 (sid :> [socket_id |-> sid, watching_client |-> client_id])
                 @@ web_viewers
            /\ emits' = {Reply("viewer_joined", sid, client_id, TRUE, "")}
       ELSE /\ web_viewers' = web_viewers
            /\ emits' = {Reply("viewer_joined", sid, NoClient, FALSE,
                               "Client not available")}
  /\ last' = [Event("viewer_join_client", sid, client_id) EXCEPT
                !.authenticated = authenticated,
                !.was_watching = WatchedBy(web_viewers, sid)]
  /\ UNCHANGED <<opened, closed, connected_clients, lastReg>>

\* A forwarder that ignores the identifier: the event goes to every online
\* agent.
ToClientAny(event, client_id) ==
  {Emit(event, connected_clients[i].socket_id, client_id) :
     i \in {j \in 1..Len(connected_clients) : connected_clients[j].online}}

\* What each viewer-to-agent handler emits: the event, once, to the room of
\* the record's socket_id when the record exists and is online, and nothing
\* otherwise.
ToClient(event, client_id) ==
  IF IsOnline(client_id)
    THEN {Emit(event, Get(connected_clients, client_id).socket_id, client_id)}
    ELSE {}

\* @socketio.on('request_screen_frame'): forwarded as capture_screen (the payload
\* names the requester, request.sid, and the quality).
handle_request_screen_frame(sid, client_id) ==
  /\ Dispatch(sid)
  /\ emits' = ToClient("capture_screen", client_id)
  /\ last' = Event("request_screen_frame", sid, client_id)
  /\ UNCHANGED <<opened, closed, connected_clients, web_viewers, lastReg>>

\* @socketio.on('quality_change')
handle_quality_change(sid, client_id) ==
  /\ Dispatch(sid)
  /\ emits' = ToClient("quality_change", client_id)
  /\ last' = Event("quality_change", sid, client_id)
  /\ UNCHANGED <<opened, closed, connected_clients, web_viewers, lastReg>>

\* @socketio.on('mouse_action')
handle_mouse_action(sid, client_id) ==
  /\ Dispatch(sid)
  /\ emits' = ToClient("mouse_action", client_id)
  /\ last' = Event("mouse_action", sid, client_id)
  /\ UNCHANGED <<opened, closed, connected_clients, web_viewers, lastReg>>

\* @socketio.on('key_action')
handle_key_action(sid, client_id) ==
  /\ Dispatch(sid)
  /\ emits' = ToClient("key_action", client_id)
  /\ last' = Event("key_action", sid, client_id)
  /\ UNCHANGED <<opened, closed, connected_clients, web_viewers, lastReg>>

\* @socketio.on('save_text')
handle_save_text(sid, client_id) ==
  /\ Dispatch(sid)
  /\ emits' = ToClient("save_text", client_id)
  /\ last' = Event("save_text", sid, client_id)
  /\ UNCHANGED <<opened, closed, connected_clients, web_viewers, lastReg>>

\* @socketio.on('trigger_human_typing')
handle_trigger_human_typing(sid, client_id) ==
  /\ Dispatch(sid)
  /\ emits' = ToClient("trigger_human_typing", client_id)
  /\ last' = Event("trigger_human_typing", sid, client_id)
  /\ UNCHANGED <<opened, closed, connected_clients, web_viewers, lastReg>>

\* @socketio.on('text_saved_response'): forwarded as text_saved to the viewers of
\* the identifier.
handle_text_saved_response(sid, client_id) ==
  /\ Dispatch(sid)
  /\ emits' = FanOut("text_saved", web_viewers, client_id)
  /\ last' = Event("text_saved_response", sid, client_id)
  /\ UNCHANGED <<opened, closed, connected_clients, web_viewers, lastReg>>

\* @socketio.on('typing_status_update'): forwarded as typing_status to the viewers
\* of the identifier.
handle_typing_status_update(sid, client_id) ==
  /\ Dispatch(sid)
  /\ emits' = FanOut("typing_status", web_viewers, client_id)
  /\ last' = Event("typing_status_update", sid, client_id)
  /\ UNCHANGED <<opened, closed, connected_clients, web_viewers, lastReg>>

\* The handlers that take a data argument, and the keys each reads with
\* data[...] before it touches a registry or emits: 'client_id' on the first
\* line of every one, then 'info' in handle_client_register and 'quality' in
\* handle_quality_change (handle_request_screen_frame reads 'quality' with
\* data.get and a default).
DataOps ==
  {"client_register", "screen_frame_from_client", "viewer_join_client",
   "request_screen_frame", "quality_change", "mouse_action", "key_action",
   "save_text", "trigger_human_typing", "text_saved_response",
   "typing_status_update"}

RequiredFields(op) ==
  {"client_id"} \cup (IF op = "client_register" THEN {"info"} ELSE {})
                \cup (IF op = "quality_change" THEN {"quality"} ELSE {})

\* A handler that stores an empty record under the identifier before it looks
\* the other required key up.
handler_raises_AfterWrite(sid, op, field) ==
  /\ Dispatch(sid)
  /\ field \in RequiredFields(op)
  /\ connected_clients' =
       IF op = "client_register" /\ field = "info"
         THEN DictSet(connected_clients, "pc-1",
                      [client_id |-> "pc-1", socket_id |-> sid, online |-> FALSE,
                       preview |-> FALSE])
         ELSE connected_clients
  /\ emits' = {}
  /\ last' = [Event("KeyError", sid, NoClient) EXCEPT
                !.missing = field, !.raised_in = op]
  /\ UNCHANGED <<opened, closed, web_viewers, lastReg>>

\* A message without a required key: `data['client_id']` (or `data['info']`,
\* `data['quality']`) raises KeyError on the handler's first lines, before
\* any assignment to a registry and before any emit.  The file registers no
\* error handler, so the exception ends this handler call and nothing else;
\* the connection stays open and the event loop goes on.
handler_raises(sid, op, field) ==
  /\ Dispatch(sid)
  /\ field \in RequiredFields(op)
  /\ emits' = {}
  /\ last' = [Event("KeyError", sid, NoClient) EXCEPT
                !.missing = field, !.raised_in = op]
  /\ UNCHANGED <<opened, closed, connected_clients, web_viewers, lastReg>>

\* The handler returns to the event loop; what it emitted has been handed to
\* the transport.
handler_return ==
  /\ last # Idle
  /\ last' = Idle
  /\ emits' = {}
  /\ UNCHANGED <<opened, closed, connected_clients, web_viewers, lastReg>>

\* Every handler is dispatched from the idle event loop (Dispatch); the guard
\* stands in front of the choice of the event so that it is read once.
Next ==
  \/ /\ handler_return
     /\ UNCHANGED <<wire, history>>
  \/ /\ handle_connect
     /\ UNCHANGED <<wire, history>>
  \/ /\ last = Idle
     /\ \E sid \in Sids : handle_disconnect(sid)
     /\ UNCHANGED <<wire, history>>
  \/ /\ last = Idle
     /\ \E sid \in Sids, client_id \in ClientIds : handle_client_register(sid, client_id)
     /\ UNCHANGED <<wire, history>>
  \/ /\ last = Idle
     /\ \E sid \in Sids, client_id \in ClientIds, has_preview \in BOOLEAN, has_image \in BOOLEAN :
          handle_screen_frame_from_client(sid, client_id, has_preview, has_image)
     /\ UNCHANGED <<wire, history>>
  \/ /\ last = Idle
     /\ \E sid \in Sids : handle_request_client_list(sid)
     /\ UNCHANGED <<wire, history>>
  \/ /\ last = Idle
     /\ \E sid \in Sids, client_id \in ClientIds, authenticated \in BOOLEAN :
          handle_viewer_join_client(sid, client_id, authenticated)
     /\ UNCHANGED <<wire, history>>
  \/ /\ last = Idle
     /\ \E sid \in Sids, client_id \in ClientIds : handle_request_screen_frame(sid, client_id)
     /\ UNCHANGED <<wire, history>>
  \/ /\ last = Idle
     /\ \E sid \in Sids, client_id \in ClientIds : handle_quality_change(sid, client_id)
     /\ UNCHANGED <<wire, history>>
  \/ /\ last = Idle
     /\ \E sid \in Sids, client_id \in ClientIds : handle_mouse_action(sid, client_id)
     /\ UNCHANGED <<wire, history>>
  \/ /\ last = Idle
     /\ \E sid \in Sids, client_id \in ClientIds : handle_key_action(sid, client_id)
     /\ UNCHANGED <<wire, history>>
  \/ /\ last = Idle
     /\ \E sid \in Sids, client_id \in ClientIds : handle_save_text(sid, client_id)
     /\ UNCHANGED <<wire, history>>
  \/ /\ last = Idle
     /\ \E sid \in Sids, client_id \in ClientIds : handle_trigger_human_typing(sid, client_id)
     /\ UNCHANGED <<wire, history>>
  \/ /\ last = Idle
     /\ \E sid \in Sids, client_id \in ClientIds : handle_text_saved_response(sid, client_id)
     /\ UNCHANGED <<wire, history>>
  \/ /\ last = Idle
     /\ \E sid \in Sids, client_id \in ClientIds : handle_typing_status_update(sid, client_id)
     /\ UNCHANGED <<wire, history>>
  \/ /\ last = Idle
     /\ \E sid \in Sids, op \in DataOps, field \in {"client_id", "info", "quality"} :
          handler_raises(sid, op, field)
     /\ UNCHANGED <<wire, history>>

Spec == Init /\ [][Next]_vars

(***************************************************************************)
(* Vocabulary of the properties below, read off the registries directly.    *)
(***************************************************************************)

\* The events the viewer-to-agent handlers emit, and the input events among
\* them (each input handler emits the event it was called for).
AgentEvents ==
  {"capture_screen", "quality_change", "mouse_action", "key_action",
   "save_text", "trigger_human_typing"}

InputOps == {"mouse_action", "key_action", "save_text", "trigger_human_typing"}

\* The events the agent-to-viewers handlers emit to a viewer's room.
ViewerEvents == {"screen_frame", "text_saved", "typing_status"}

\* The positions of the records stored under an identifier.
RecordsOf(client_id) ==
  {i \in 1..Len(connected_clients) : connected_clients[i].client_id = client_id}

\* An agent record for the identifier exists and is marked online.
RecordOnline(client_id) ==
  \E i \in RecordsOf(client_id) : connected_clients[i].online

\* The viewer record of connection sid pairs it with the identifier.
Paired(sid, client_id) ==
  /\ sid \in DOMAIN web_viewers
  /\ web_viewers[sid].watching_client = client_id

\* The rooms the handler that has just run sent `event` to.
RoomsOf(event) == {e.room : e \in {x \in emits : x.event = event}}

\* Connection sid is the handle of some agent record.
HoldsRecord(sid) ==
  \E i \in 1..Len(connected_clients) : connected_clients[i].socket_id = sid

JoinSucceeded ==
  \E e \in emits : e.event = "viewer_joined" /\ e.success

JoinFailed ==
  \E e \in emits : e.event = "viewer_joined" /\ ~e.success

\* The one rejection handle_viewer_join_client sends.
Rejection(sid) ==
  Reply("viewer_joined", sid, NoClient, FALSE, "Client not available")

(***************************************************************************)
(* The message streams.  A connection is a persistent, message-framed       *)
(* stream in each direction: the messages a peer sends are handled in the   *)
(* order it sent them, one handler at a time, and what socketio.emit hands  *)
(* to a room goes out after what was handed to it before.  SpecFifo follows *)
(* the input messages of the viewers of one agent through both streams; the *)
(* handlers are those of Spec.                                              *)
(***************************************************************************)

\* Number of connections a run of SpecFifo may open.
FifoConn == 2

\* The single agent whose traffic SpecFifo follows: the CLIENT_ID of the
\* viewer page, which every message it sends names.
TheAgent == "pc-1"

\* An input message in flight: its data['client_id'] and its number among the
\* messages sent so far.  The stream carries the event name and the rest of
\* the payload opaquely; the name is read when the message is handled.
Message(client_id, seq) == [client_id |-> client_id, seq |-> seq]

\* The viewer page, once it has joined, calls socket.emit(<input event>,
\* {client_id: CLIENT_ID, ...}).  A handler is atomic, so a message sent while
\* one runs is a message sent right after it.
send_input(sid, client_id) ==
  /\ last = Idle
  /\ IsOpen(sid)
  /\ sid \in DOMAIN web_viewers
  /\ sent < MaxSent
  /\ sent' = sent + 1
  /\ pending' = [pending EXCEPT ![sid] = Append(@, Message(client_id, sent + 1))]
  /\ UNCHANGED <<opened, closed, connected_clients, web_viewers, emits, last,
                 lastReg, delivered, history>>

\* An outgoing stream that puts the newest event in front of those waiting.
DeliverInFront(out, es, from, m) ==
  [r \in Sids |->
     IF \E e \in es : e.room = r
       THEN <<[from |-> from, seq |-> m.seq]>> \o out[r]
       ELSE out[r]]

\* socketio.emit(event, data, room=socket_id): the event joins the end of the
\* room's outgoing stream.  An entry records the sender and the number of the
\* message the event forwards.
Deliver(out, es, from, m) ==
  [r \in Sids |->
     IF \E e \in es : e.room = r
       THEN Append(out[r], [from |-> from, seq |-> m.seq])
       ELSE out[r]]

\* Connection sid has an unhandled message; the oldest is the next handled.
Received(sid) == pending[sid] # <<>>

\* The stream side of handling that message: it leaves the sender's stream,
\* and what the handler emitted joins the receiving room's stream.
Relayed(sid) ==
  /\ pending' = [pending EXCEPT ![sid] = Tail(@)]
  /\ delivered' = Deliver(delivered, emits', sid, Head(pending[sid]))
  /\ UNCHANGED <<sent, history>>

\* A disconnect ends both streams of the connection: its unhandled messages
\* are never handled, and its room is empty.
Disconnected(sid) ==
  /\ pending' = [pending EXCEPT ![sid] = <<>>]
  /\ delivered' = [delivered EXCEPT ![sid] = <<>>]
  /\ UNCHANGED <<sent, history>>

NextFifo ==
  \/ /\ handler_return
     /\ UNCHANGED <<wire, history>>
  \/ /\ opened < FifoConn
     /\ handle_connect
     /\ UNCHANGED <<wire, history>>
  \/ /\ last = Idle
     /\ \E sid \in Sids : handle_disconnect(sid) /\ Disconnected(sid)
  \/ /\ last = Idle
     /\ \E sid \in Sids : handle_client_register(sid, TheAgent)
     /\ UNCHANGED <<wire, history>>
  \/ /\ last = Idle
     /\ \E sid \in Sids : handle_viewer_join_client(sid, TheAgent, FALSE)
     /\ UNCHANGED <<wire, history>>
  \/ \E sid \in Sids : send_input(sid, TheAgent)
  \/ /\ last = Idle
     /\ \E sid \in Sids :
          /\ Received(sid)
          /\ handle_mouse_action(sid, Head(pending[sid]).client_id)
          /\ Relayed(sid)
  \/ /\ last = Idle
     /\ \E sid \in Sids :
          /\ Received(sid)
          /\ handle_key_action(sid, Head(pending[sid]).client_id)
          /\ Relayed(sid)
  \/ /\ last = Idle
     /\ \E sid \in Sids :
          /\ Received(sid)
          /\ handle_save_text(sid, Head(pending[sid]).client_id)
          /\ Relayed(sid)
  \/ /\ last = Idle
     /\ \E sid \in Sids :
          /\ Received(sid)
          /\ handle_trigger_human_typing(sid, Head(pending[sid]).client_id)
          /\ Relayed(sid)

SpecFifo == Init /\ [][NextFifo]_vars

(***************************************************************************)
(* Supersession.  SpecSupersede runs the registration, disconnect and input *)
(* handlers of Spec and remembers, beside them, which open connections held *)
(* the record of an identifier when another connection registered it.       *)
(***************************************************************************)

\* handle_client_register overwrites connected_clients[client_id]: the
\* connection whose handle the record held, if it is another one and still
\* open, has been superseded; the registering connection no longer is.
Supersede(sid, client_id) ==
  superseded' =
    [superseded EXCEPT ![client_id] =
       (@ \ {sid}) \cup
       (IF /\ HasKey(connected_clients, client_id)
           /\ Get(connected_clients, client_id).socket_id # sid
           /\ IsOpen(Get(connected_clients, client_id).socket_id)
          THEN {Get(connected_clients, client_id).socket_id}
          ELSE {})]

NextSupersede ==
  \/ /\ handler_return
     /\ UNCHANGED <<wire, history>>
  \/ /\ handle_connect
     /\ UNCHANGED <<wire, history>>
  \/ /\ last = Idle
     /\ \E sid \in Sids : handle_disconnect(sid)
     /\ UNCHANGED <<wire, history>>
  \/ /\ last = Idle
     /\ \E sid \in Sids, client_id \in ClientIds :
          handle_client_register(sid, client_id) /\ Supersede(sid, client_id)
     /\ UNCHANGED wire
  \/ /\ last = Idle
     /\ \E sid \in Sids, client_id \in ClientIds : handle_mouse_action(sid, client_id)
     /\ UNCHANGED <<wire, history>>
  \/ /\ last = Idle
     /\ \E sid \in Sids, client_id \in ClientIds : handle_key_action(sid, client_id)
     /\ UNCHANGED <<wire, history>>
  \/ /\ last = Idle
     /\ \E sid \in Sids, client_id \in ClientIds : handle_save_text(sid, client_id)
     /\ UNCHANGED <<wire, history>>
  \/ /\ last = Idle
     /\ \E sid \in Sids, client_id \in ClientIds :
          handle_trigger_human_typing(sid, client_id)
     /\ UNCHANGED <<wire, history>>

SpecSupersede == Init /\ [][NextSupersede]_vars

(***************************************************************************)
(* C1.  After any sequence of events at most one online agent record        *)
(* exists per identifier, and a client_register leaves under its            *)
(* identifier exactly the record of the registering connection: its handle  *)
(* is the new connection's, it is online, and nothing of the record it      *)
(* replaced (its cached preview) is merged into it.                         *)
(***************************************************************************)
C1_OneOnlineRecordPerIdentifier ==
  /\ \A c \in ClientIds :
       Cardinality({i \in RecordsOf(c) : connected_clients[i].online}) <= 1
  /\ last.op = "client_register" =>
       \A i \in RecordsOf(last.client_id) :
         connected_clients[i] =
           [client_id |-> last.client_id, socket_id |-> last.sid,
            online |-> TRUE, preview |-> FALSE]

\* A registration has just replaced the online record of another connection
\* that is still open.
C1_Witness ==
  /\ last.op = "client_register"
  /\ last.replaced # NoSid
  /\ last.replaced # last.sid
  /\ IsOpen(last.replaced)
  /\ RecordsOf(last.client_id) # {}

C3_NoDeliveryToDisconnected ==
  \A e \in emits :
    e.event \in AgentEvents \cup ViewerEvents => IsOpen(e.room)

(***************************************************************************)
(* C4.  Once the disconnect of an agent has been handled (its record is     *)
(* offline and nobody has registered the identifier again), a               *)
(* screen_frame_from_client for that identifier delivers no screen_frame    *)
(* to any viewer.                                                           *)
(***************************************************************************)
C4_NoFrameAfterAgentDisconnect ==
  ( /\ last.op = "screen_frame_from_client"
    /\ RecordsOf(last.client_id) # {}
    /\ ~RecordOnline(last.client_id) )
  => RoomsOf("screen_frame") = {}

C7_FrameReachesPairedConnectedViewers ==
  last.op = "screen_frame_from_client" =>
    RoomsOf("screen_frame") =
      IF last.has_image
        THEN {v \in OpenSids : Paired(v, last.client_id)}
        ELSE {}

\* A frame has just reached two viewers of the same agent.
C7_Witness ==
  /\ last.op = "screen_frame_from_client"
  /\ last.has_image
  /\ Cardinality(RoomsOf("screen_frame")) = 2
  /\ RecordOnline(last.client_id)

(***************************************************************************)
(* C8.  A connection handle is recorded as an agent or as a viewer, never   *)
(* as both.                                                                 *)
(***************************************************************************)
C8_AgentXorViewer ==
  \A i \in 1..Len(connected_clients) :
    connected_clients[i].socket_id \notin DOMAIN web_viewers

(***************************************************************************)
(* C9.  A viewer_join_client handled while the identifier has no record or  *)
(* an offline one changes neither registry (no viewer record is created,    *)
(* the requester's existing pairing and every agent record stay as they     *)
(* were) and sends the requester one rejection that carries a reason.       *)
(***************************************************************************)
C9_FailedJoinChangesNothing ==
  [][ (last'.op = "viewer_join_client" /\ ~RecordOnline(last'.client_id)) =>
        /\ connected_clients' = connected_clients
        /\ web_viewers' = web_viewers
        /\ emits' = {Rejection(last'.sid)}
        /\ \A e \in emits' : ~e.success /\ e.message # "" ]_vars

\* A viewer that is paired with one agent has just been refused another.
C9_Witness ==
  /\ last.op = "viewer_join_client"
  /\ JoinFailed
  /\ last.sid \in DOMAIN web_viewers
  /\ web_viewers[last.sid].watching_client # last.client_id

C11_InputRoutedBySendersPairing ==
  \A e \in emits :
    e.event \in AgentEvents => Paired(last.sid, e.client_id)

\* The agent-to-viewers handlers, by the events they handle.
AgentOps ==
  {"screen_frame_from_client", "text_saved_response", "typing_status_update"}

\* Connection sid is the handle of a record stored under the identifier.
RegisteredAs(sid, client_id) ==
  \E i \in RecordsOf(client_id) : connected_clients[i].socket_id = sid

(***************************************************************************)
(* C12.  A relay event whose sender is unregistered is dropped: a frame or  *)
(* status event from a connection that is not the registered agent          *)
(* connection of the identifier it names, and an input event from a         *)
(* connection that has no viewer record, is delivered to no peer.           *)
(***************************************************************************)
C12_UnregisteredSenderIsDropped ==
  /\ (last.op \in AgentOps /\ ~RegisteredAs(last.sid, last.client_id)) =>
       emits = {}
  /\ (last.op \in InputOps /\ last.sid \notin DOMAIN web_viewers) =>
       emits = {}

RoomsWith(sid) == {c \in ClientIds : sid \in ViewersOf(web_viewers, c)}

(***************************************************************************)
(* C14.  A viewer connection is paired with at most one agent at any        *)
(* instant: it is in the fan-out of exactly one identifier while it has a   *)
(* viewer record, a successful join leaves it in the fan-out of the         *)
(* identifier it asked for and of no other (the previous pairing is         *)
(* replaced), and a frame or status event for an identifier reaches only    *)
(* connections whose current pairing is that identifier.                    *)
(***************************************************************************)
C14_OnePairingPerViewer ==
  /\ \A v \in DOMAIN web_viewers : Cardinality(RoomsWith(v)) = 1
  /\ (last.op = "viewer_join_client" /\ JoinSucceeded) =>
       RoomsWith(last.sid) = {last.client_id}
  /\ \A e \in emits :
       e.event \in ViewerEvents =>
         /\ e.room \in DOMAIN web_viewers
         /\ RoomsWith(e.room) = {e.client_id}

\* A viewer paired with one agent has just joined another.
C14_Witness ==
  /\ last.op = "viewer_join_client"
  /\ JoinSucceeded
  /\ last.was_watching \notin {NoClient, last.client_id}
  /\ RoomsWith(last.sid) = {last.client_id}

(***************************************************************************)
(* C15.  The cleanup of handle_disconnect is idempotent on the registries:  *)
(* applied a second time for the same handle it leaves connected_clients    *)
(* and web_viewers exactly as the first application left them (the agent    *)
(* stays offline, the viewer stays removed), in particular in the state a   *)
(* disconnect has just produced; and applied for a handle that is in no     *)
(* record it changes nothing.  (The registries of every reachable state are *)
(* those of the idle state its handler returns to, so the cleanup is        *)
(* applied, for every handle, to the registries of the idle states.)        *)
(***************************************************************************)
C15_DisconnectCleanupIdempotent ==
  /\ last = Idle =>
       \A s \in Sids :
         LET once_clients == MarkOffline(connected_clients, s)
             once_viewers == RemoveViewer(web_viewers, s)
         IN /\ MarkOffline(once_clients, s) = once_clients
            /\ RemoveViewer(once_viewers, s) = once_viewers
            /\ (~HoldsRecord(s) /\ s \notin DOMAIN web_viewers) =>
                 once_clients = connected_clients /\ once_viewers = web_viewers
  /\ last.op = "disconnect" =>
       /\ MarkOffline(connected_clients, last.sid) = connected_clients
       /\ RemoveViewer(web_viewers, last.sid) = web_viewers

\* The disconnect of a connection that was both an agent and a viewer has
\* just been handled, while another agent is online.
C15_Witness ==
  /\ last.op = "disconnect"
  /\ last.was_watching # NoClient
  /\ \E i \in 1..Len(connected_clients) :
       connected_clients[i].socket_id = last.sid /\ ~connected_clients[i].online
  /\ \E i \in 1..Len(connected_clients) : connected_clients[i].online

\* The events the viewer-to-agent handlers handle, and the event each emits.
ViewerOps == InputOps \cup {"request_screen_frame", "quality_change"}

EmittedFor(op) == IF op = "request_screen_frame" THEN "capture_screen" ELSE op

C17_NoQueueNoReplay ==
  /\ last.op \notin ViewerOps \cup AgentOps =>
       \A e \in emits : e.event \notin AgentEvents \cup ViewerEvents
  /\ last.op \in ViewerOps =>
       /\ \A e \in emits :
            e.event = EmittedFor(last.op) /\ e.client_id = last.client_id
       /\ Cardinality(emits) <= 1
       /\ ~RecordOnline(last.client_id) => emits = {}
  /\ last.op \in AgentOps =>
       /\ \A e \in emits :
            e.event \notin AgentEvents /\ e.client_id = last.client_id
       /\ ViewersOf(web_viewers, last.client_id) = {} =>
            \A e \in emits : e.event \notin ViewerEvents

\* An agent has just registered again, after a disconnect, under an
\* identifier a viewer is still paired with, and received no relay event.
C17_Witness ==
  /\ last.op = "client_register"
  /\ last.replaced = NoSid
  /\ closed # {}
  /\ ViewersOf(web_viewers, last.client_id) # {}
  /\ RoomsOf("registration_success") = {last.sid}

C19_ConcurrentJoinsBothSucceed ==
  /\ [][ last'.op = "viewer_join_client" =>
           /\ \A v \in DOMAIN web_viewers \ {last'.sid} :
                v \in DOMAIN web_viewers' /\ web_viewers'[v] = web_viewers[v]
           /\ RecordOnline(last'.client_id) =>
                /\ last'.sid \in DOMAIN web_viewers'
                /\ web_viewers'[last'.sid].watching_client = last'.client_id
                /\ Reply("viewer_joined", last'.sid, last'.client_id, TRUE, "")
                     \in emits' ]_vars
  /\ [](last.op = "screen_frame_from_client" /\ last.has_image =>
          ViewersOf(web_viewers, last.client_id) \subseteq RoomsOf("screen_frame"))

\* A second viewer has just joined an agent another open connection is
\* already watching.
C19_Witness ==
  /\ last.op = "viewer_join_client"
  /\ JoinSucceeded
  /\ last.was_watching # last.client_id
  /\ \E v \in OpenSids \ {last.sid} : Paired(v, last.client_id)
  /\ Paired(last.sid, last.client_id)

(***************************************************************************)
(* C20.  The cached preview is not retained on disconnect: in every state   *)
(* after an agent's disconnect has been handled, and before the identifier  *)
(* is registered again, its record holds no preview.                        *)
(***************************************************************************)
C20_NoPreviewWhileOffline ==
  \A i \in 1..Len(connected_clients) :
    ~connected_clients[i].online => ~connected_clients[i].preview

(***************************************************************************)
(* C21.  A message that lacks a key its handler requires (client_id, info,  *)
(* quality) is dropped: the handler call changes neither registry and       *)
(* emits nothing, the connection stays open, and the event loop returns to  *)
(* idle with the event after it handled as any other.                       *)
(***************************************************************************)
C21_MalformedMessageDropped ==
  /\ [][ last'.missing # NoField =>
           /\ connected_clients' = connected_clients
           /\ web_viewers' = web_viewers
           /\ opened' = opened /\ closed' = closed
           /\ emits' = {} ]_vars
  /\ [][ last.missing # NoField =>
           last' = Idle /\ connected_clients' = connected_clients
                        /\ web_viewers' = web_viewers ]_vars
  /\ [](last.missing # NoField => IsOpen(last.sid) /\ ENABLED handler_return)

\* A client_register without 'info' has just been dropped on the connection
\* of an online agent that a viewer is watching.
C21_Witness ==
  /\ last.raised_in = "client_register"
  /\ last.missing = "info"
  /\ emits = {}
  /\ \E c \in ClientIds :
       /\ RegisteredAs(last.sid, c)
       /\ RecordOnline(c)
       /\ ViewersOf(web_viewers, c) # {}

(***************************************************************************)
(* C22.  Every agent record marked online holds the handle of a connection  *)
(* that is currently open; in particular, once a connection that registered *)
(* under two identifiers has disconnected, no record carrying its handle is *)
(* online.                                                                  *)
(***************************************************************************)
C22_OnlineRecordsHoldOpenHandles ==
  \A i \in 1..Len(connected_clients) :
    connected_clients[i].online => IsOpen(connected_clients[i].socket_id)

(***************************************************************************)
(* C23.  The disconnect of a superseded connection does not affect the      *)
(* current agent.  While the connection that registered an identifier last  *)
(* is open, the identifier's record is online with that connection's        *)
(* handle, whichever other connections have disconnected; a disconnect      *)
(* broadcasts client_disconnected only for a record that holds the handle   *)
(* of the connection that closed; and an input event for the identifier is  *)
(* delivered to the latest registrant.                                      *)
(***************************************************************************)
C23_SupersededDisconnectIsHarmless ==
  /\ \A c \in ClientIds :
       (lastReg[c] # NoSid /\ IsOpen(lastReg[c])) =>
         \E i \in RecordsOf(c) :
           connected_clients[i].online /\ connected_clients[i].socket_id = lastReg[c]
  /\ last.op = "disconnect" =>
       \A e \in emits :
         /\ e.event = "client_disconnected"
         /\ RegisteredAs(last.sid, e.client_id)
  /\ \A c \in ClientIds :
       (last.op \in InputOps /\ last.client_id = c /\ IsOpen(lastReg[c])) =>
         RoomsOf(last.op) = {lastReg[c]}

\* The connection an open one superseded under an identifier has just
\* disconnected: nothing was broadcast and the record is online with the
\* handle of the open one.
C23_Witness ==
  \E c \in ClientIds :
    /\ last.op = "disconnect"
    /\ last.sid \in superseded[c]
    /\ lastReg[c] # last.sid
    /\ IsOpen(lastReg[c])
    /\ emits = {}
    /\ \E i \in RecordsOf(c) :
         connected_clients[i].online /\ connected_clients[i].socket_id = lastReg[c]

(***************************************************************************)
(* C24.  A viewer's pairing survives the agent going offline: the           *)
(* disconnect of an agent's connection removes no viewer record (the        *)
(* connection that closed held none before its disconnect was handled).     *)
(***************************************************************************)
C24_AgentDisconnectRemovesNoViewer ==
  (last.op = "disconnect" /\ HoldsRecord(last.sid)) =>
    last.was_watching = NoClient

(***************************************************************************)
(* What holds of the pairings of the other connections: a disconnect        *)
(* removes no viewer record but the one of the connection that closed and   *)
(* alters none, a client_register leaves every viewer record as it was, and *)
(* a frame carrying an image is sent to every connection recorded as        *)
(* watching its identifier, whichever connection registered it last.        *)
(***************************************************************************)
PairingsOfOthersSurvive ==
  /\ [][ last'.op = "disconnect" =>
           \A v \in DOMAIN web_viewers :
             web_viewers[v].socket_id # last'.sid =>
               v \in DOMAIN web_viewers' /\ web_viewers'[v] = web_viewers[v] ]_vars
  /\ [][ last'.op = "client_register" => web_viewers' = web_viewers ]_vars
  /\ [](last.op = "screen_frame_from_client" /\ last.has_image =>
          \A v \in DOMAIN web_viewers :
            web_viewers[v].watching_client = last.client_id =>
              Emit("screen_frame", v, last.client_id) \in emits)

(***************************************************************************)
(* C25.  Relay and query handlers do not change registration or pairing     *)
(* state: request_client_list, request_screen_frame, quality_change, the    *)
(* four input events, text_saved_response and typing_status_update leave    *)
(* the agent registry and the viewer registry as they were, and             *)
(* screen_frame_from_client leaves the viewer registry as it was, keeps the *)
(* agent registry's keys and their order, and changes no field of any       *)
(* record but the preview of the record it names, and that only when the    *)
(* frame carries a preview.                                                 *)
(***************************************************************************)
RelayOps ==
  ViewerOps \cup {"request_client_list", "text_saved_response",
                  "typing_status_update"}

C25_RelayHandlersKeepRegistries ==
  [][ /\ last'.op \in RelayOps =>
           /\ connected_clients' = connected_clients
           /\ web_viewers' = web_viewers
      /\ last'.op = "screen_frame_from_client" =>
           /\ web_viewers' = web_viewers
           /\ Len(connected_clients') = Len(connected_clients)
           /\ \A i \in 1..Len(connected_clients) :
                /\ [connected_clients'[i] EXCEPT
                      !.preview = connected_clients[i].preview]
                     = connected_clients[i]
                /\ connected_clients'[i] # connected_clients[i] =>
                     /\ connected_clients[i].client_id = last'.client_id
                     /\ last'.has_preview ]_vars

\* A frame with a preview was handled for an agent that is offline: the
\* preview is stored in its record, which is still offline.
C25_Witness ==
  /\ last.op = "screen_frame_from_client"
  /\ last.has_preview
  /\ HasKey(connected_clients, last.client_id)
  /\ Get(connected_clients, last.client_id).preview
  /\ ~Get(connected_clients, last.client_id).online

====
